---- MODULE Spec2Model ----
(***************************************************************************)
(* Portainer MCP wrapper: the HTTP service of cmd/wrapper/main.go, the     *)
(* bearer-token middleware of internal/auth/auth.go, the session factory   *)
(* of internal/bridge/bridge.go, the configuration loader of               *)
(* internal/config and the reference stdio bridge of                       *)
(* docs/04-code-examples.md.                                               *)
(*                                                                         *)
(* Strings that the code takes apart (the Authorization header, the access *)
(* token) are sequences of chunks drawn from a prefix-free alphabet, so    *)
(* two sequences are equal exactly when the strings they spell are equal.  *)
(* The chunk " " is the single space character.                            *)
(***************************************************************************)
EXTENDS Integers, Sequences, FiniteSets, TLC

\* ------------------------------------------------------------- bounds

MaxHdrLen == 3

MaxTokLen == 1

MaxReq == 1

MaxSessions == 2

MaxWriters == 2

MaxSends == 3

\* The longest string of a message the codec is tried on.
MaxTextLen == 2

\* The most lines the subprocess writes to its stdout.
MaxOut == 3

\* The most calls of Close.
MaxCloses == 2

\* ------------------------------------------------------------ strings

Chunks == {"Bearer", "bearer", " ", "tok"}

SeqsUpTo(S, n) == UNION {[1..k -> S] : k \in 0..n}

Headers == SeqsUpTo(Chunks, MaxHdrLen)

\* The access tokens LoadConfig accepts are the non-empty ones.
Tokens == SeqsUpTo({"tok", "bearer", " "}, MaxTokLen) \ {<<>>}

Str(s) == <<s>>

\* strings.SplitN(s, " ", 2): at most two parts, cut at the first space.
SplitN2(s) ==
  IF \E i \in 1..Len(s) : s[i] = " "
  THEN LET i == CHOOSE k \in 1..Len(s) :
                  s[k] = " " /\ \A j \in 1..(k - 1) : s[j] # " "
       IN  <<SubSeq(s, 1, i - 1), SubSeq(s, i + 1, Len(s))>>
  ELSE <<s>>

\* ------------------------------------------------------ configuration

DefaultPort == 8080

DefaultURL == "http://portainer:9000"

DefaultBinary == "/app/portainer-mcp"

NoConfig == [loaded |-> FALSE]

\* strconv.ParseBool: the accepted spellings; anything else is an error.
ParseBoolTrue == {"1", "t", "T", "TRUE", "true", "True"}

ParseBoolFalse == {"0", "f", "F", "FALSE", "false", "False"}

\* strconv.Atoi over the port spellings the environments of the model use.
AtoiTable == [x \in {"8081"} |-> 8081]

getEnvOrDefault(val, defaultVal) == IF val # "" THEN val ELSE defaultVal

getEnvAsIntOrDefault(val, defaultVal) ==
  IF val # "" /\ val \in DOMAIN AtoiTable THEN AtoiTable[val] ELSE defaultVal

getEnvAsBoolOrDefault(val, defaultVal) ==
  IF val # "" /\ val \in ParseBoolTrue THEN TRUE
  ELSE IF val # "" /\ val \in ParseBoolFalse THEN FALSE
  ELSE defaultVal

\* LoadConfig without the check of MCP_ACCESS_TOKEN.
LoadConfigNoAccessCheck(e) ==
  LET c == [loaded              |-> TRUE,
            PortainerURL        |-> getEnvOrDefault(e.PORTAINER_URL, DefaultURL),
            PortainerAPIToken   |-> e.PORTAINER_API_TOKEN,
            MCPAccessToken      |-> e.MCP_ACCESS_TOKEN,
            MCPPort             |-> getEnvAsIntOrDefault(e.MCP_PORT, DefaultPort),
            MCPToolsFile        |-> e.MCP_TOOLS_FILE,
            DisableVersionCheck |-> getEnvAsBoolOrDefault(e.DISABLE_VERSION_CHECK, FALSE),
            ReadOnlyMode        |-> getEnvAsBoolOrDefault(e.READ_ONLY_MODE, FALSE),
            MCPBinaryPath       |-> getEnvOrDefault(e.MCP_BINARY_PATH, DefaultBinary)]
  IN  IF c.PortainerAPIToken = ""
      THEN [cfg |-> NoConfig, err |-> "PORTAINER_API_TOKEN is required"]
      ELSE [cfg |-> c, err |-> ""]

\* LoadConfig without the check of PORTAINER_API_TOKEN.
LoadConfigNoAPICheck(e) ==
  LET c == [loaded              |-> TRUE,
            PortainerURL        |-> getEnvOrDefault(e.PORTAINER_URL, DefaultURL),
            PortainerAPIToken   |-> e.PORTAINER_API_TOKEN,
            MCPAccessToken      |-> e.MCP_ACCESS_TOKEN,
            MCPPort             |-> getEnvAsIntOrDefault(e.MCP_PORT, DefaultPort),
            MCPToolsFile        |-> e.MCP_TOOLS_FILE,
            DisableVersionCheck |-> getEnvAsBoolOrDefault(e.DISABLE_VERSION_CHECK, FALSE),
            ReadOnlyMode        |-> getEnvAsBoolOrDefault(e.READ_ONLY_MODE, FALSE),
            MCPBinaryPath       |-> getEnvOrDefault(e.MCP_BINARY_PATH, DefaultBinary)]
  IN  IF c.MCPAccessToken = <<>>
      THEN [cfg |-> NoConfig, err |-> "MCP_ACCESS_TOKEN is required"]
      ELSE [cfg |-> c, err |-> ""]

\* LoadConfig: the configuration and the error ("" is nil).
LoadConfig(e) ==
  LET c == [loaded              |-> TRUE,
            PortainerURL        |-> getEnvOrDefault(e.PORTAINER_URL, DefaultURL),
            PortainerAPIToken   |-> e.PORTAINER_API_TOKEN,
            MCPAccessToken      |-> e.MCP_ACCESS_TOKEN,
            MCPPort             |-> getEnvAsIntOrDefault(e.MCP_PORT, DefaultPort),
            MCPToolsFile        |-> e.MCP_TOOLS_FILE,
            DisableVersionCheck |-> getEnvAsBoolOrDefault(e.DISABLE_VERSION_CHECK, FALSE),
            ReadOnlyMode        |-> getEnvAsBoolOrDefault(e.READ_ONLY_MODE, FALSE),
            MCPBinaryPath       |-> getEnvOrDefault(e.MCP_BINARY_PATH, DefaultBinary)]
  IN  IF c.PortainerAPIToken = ""
      THEN [cfg |-> NoConfig, err |-> "PORTAINER_API_TOKEN is required"]
      ELSE IF c.MCPAccessToken = <<>>
      THEN [cfg |-> NoConfig, err |-> "MCP_ACCESS_TOKEN is required"]
      ELSE [cfg |-> c, err |-> ""]

\* The process environments the service is started in.
EnvSet ==
  [PORTAINER_URL         : {""},
   PORTAINER_API_TOKEN   : {"", "ptr_x"},
   MCP_ACCESS_TOKEN      : {<<>>, <<"tok">>},
   MCP_PORT              : {""},
   MCP_TOOLS_FILE        : {""},
   DISABLE_VERSION_CHECK : {""},
   READ_ONLY_MODE        : {"", "true"},
   MCP_BINARY_PATH       : {"", "/nonexistent"}]

\* The image installs the subprocess binary at /app/portainer-mcp and
\* nowhere else: only that path can be started.
Launchable(path) == path = DefaultBinary

\* ----------------------------------------------------------- responses

StatusOK == 200

StatusBadRequest == 400

StatusUnauthorized == 401

StatusNotFound == 404

StatusServiceUnavailable == 503

HealthBody ==
  [status |-> "healthy", service |-> "portainer-mcp-wrapper", version |-> "1.0.0"]

ErrorBody(msg) == [error |-> msg]

TextBody(msg) == [text |-> msg]

Response(st, b) == [status |-> st, body |-> b]

\* ------------------------------------------------------------ variables

VARIABLES
  env,           \* the process environment LoadConfig reads
  cfg,           \* main's cfg (NoConfig until LoadConfig has returned one)
  mainPc,        \* where main is: load, setup, serving, returned, exited, fatal
  sigPc,         \* the shutdown goroutine: off, wait, shutdown, draining, cancel, done
  srv,           \* the http.Server: new, listening, shutdown
  ctxCancelled,  \* whether main's lifecycle context has been cancelled
  reqs,          \* the inbound requests being served, by connection slot
  sessions,      \* the handler's live sessions: id -> what getServer built for it
  nextSid,       \* how many sessions have been created so far
  log,           \* the log lines written so far (as a set of kinds)
  authTok,       \* gate: the token the middleware was built with
  authReq,       \* gate: the request at the mux (its path and header)
  authOut,       \* gate: what the mux and the middleware did with it
  bMu,           \* bridge: the holder of b.mu (0: unlocked)
  bStdin,        \* bridge: the bytes the subprocess's stdin pipe has received
  bStdinClosed,  \* bridge: whether b.stdin has been closed
  bProc,         \* bridge: the subprocess, running or exited
  wPc,           \* bridge: where each caller of SendMessage is
  wMsg,          \* bridge: the message each caller is sending
  wBuf,          \* bridge: the bytes of it still to be written
  wRet,          \* bridge: what each caller's last SendMessage returned
  nSends,        \* bridge: how many SendMessage calls have been made
  bStdout,       \* bridge: the bytes in the stdout pipe, not yet read
  bStdoutClosed, \* bridge: whether the read end of stdout has been closed
  bWaited,       \* bridge: whether cmd.Wait has returned once
  pWritten,      \* bridge: the lines the subprocess has written, in order
  rPc,           \* reader: where the caller of ReadMessage is
  rBuf,          \* reader: the buffer of this call's bufio.Scanner
  rRet,          \* reader: what the last ReadMessage returned
  rLog,          \* reader: the json.Unmarshal attempts made, in order
  cPc,           \* closer: where the caller of Close is
  cRet,          \* closer: what the last Close returned
  nCloses,       \* closer: how many Close calls have been made
  cdPc,          \* codec: msg, encoded, decoded or failed
  cdMsg,         \* codec: the message being encoded
  cdLine,        \* codec: the bytes SendMessage hands to stdin.Write
  cdOut,         \* codec: what decoding the line gave
  cmCfg,         \* command: the configuration the commands are built from
  cmSession,     \* command: the exec.Cmd CreateMCPServer built
  cmDebug        \* command: the exec.Cmd GetPortainerCommand returned

svcVars ==
  <<env, cfg, mainPc, sigPc, srv, ctxCancelled, reqs, sessions, nextSid, log>>

authVars == <<authTok, authReq, authOut>>

bridgeVars == <<bMu, bStdin, bStdinClosed, bProc, wPc, wMsg, wBuf, wRet, nSends>>

readerVars == <<bStdout, pWritten, rPc, rBuf, rRet, rLog>>

closeVars == <<bStdoutClosed, bWaited, cPc, cRet, nCloses>>

codecVars == <<cdPc, cdMsg, cdLine, cdOut>>

stdioVars == <<bridgeVars, readerVars, closeVars>>

cmdVars == <<cmCfg, cmSession, cmDebug>>

nonSvcVars == <<authVars, stdioVars, codecVars, cmdVars>>

nonGateVars == <<svcVars, stdioVars, codecVars, cmdVars>>

nonBridgeVars == <<svcVars, authVars, codecVars, cmdVars, readerVars, closeVars>>

nonReaderVars == <<svcVars, authVars, codecVars, cmdVars, bridgeVars, closeVars>>

nonCodecVars == <<svcVars, authVars, stdioVars, cmdVars>>

nonCmdVars == <<svcVars, authVars, stdioVars, codecVars>>

Slots == 1..MaxReq

Paths == {"/", "/health", "/mcp"}

NoSid == 0

\* A session id no session was ever given.
UnknownSid == MaxSessions + 1

\* The Authorization headers the model's clients send: none, a scheme
\* alone, a scheme and a space, the right and wrong tokens under the right
\* and a wrong scheme, and a bare token.
SvcHeaders ==
  {<<>>, <<"Bearer">>, <<"Bearer", " ">>, <<"Bearer", " ", "tok">>,
   <<"bearer", " ", "tok">>, <<"Bearer", " ", "bearer">>, <<"tok">>}

NilServer == [nil |-> TRUE]

FreeReq ==
  [st |-> "free", path |-> "/", hdr |-> <<>>, sid |-> NoSid,
   status |-> 0, body |-> TextBody(""), reached |-> FALSE, made |-> FALSE]

\* ------------------------------------------------------- auth middleware

\* The handler NewAuthMiddleware(expectedToken) returns, applied to a request
\* whose Authorization header is authHeader: whether next.ServeHTTP is
\* called, and the response written when it is not.
\* A variant that accepts any spelling of the scheme keyword.
NewAuthMiddlewareAnyCase(expectedToken, authHeader) ==
  LET parts == SplitN2(authHeader)
  IN  IF authHeader = <<>>
      THEN [next |-> FALSE,
            resp |-> Response(StatusUnauthorized, ErrorBody("missing authorization header"))]
      ELSE IF Len(parts) # 2 \/ parts[1] \notin {Str("Bearer"), Str("bearer")}
      THEN [next |-> FALSE,
            resp |-> Response(StatusUnauthorized, ErrorBody("invalid authorization format"))]
      ELSE IF parts[2] # expectedToken
      THEN [next |-> FALSE,
            resp |-> Response(StatusUnauthorized, ErrorBody("invalid token"))]
      ELSE [next |-> TRUE, resp |-> Response(0, TextBody(""))]

\* A variant whose wrong-token branch writes the error and then falls
\* through to the wrapped handler (the return is missing).
NewAuthMiddlewareNoReturn(expectedToken, authHeader) ==
  LET parts == SplitN2(authHeader)
  IN  IF authHeader = <<>>
      THEN [next |-> FALSE,
            resp |-> Response(StatusUnauthorized, ErrorBody("missing authorization header"))]
      ELSE IF Len(parts) # 2 \/ parts[1] # Str("Bearer")
      THEN [next |-> FALSE,
            resp |-> Response(StatusUnauthorized, ErrorBody("invalid authorization format"))]
      ELSE IF parts[2] # expectedToken
      THEN [next |-> TRUE,
            resp |-> Response(StatusUnauthorized, ErrorBody("invalid token"))]
      ELSE [next |-> TRUE, resp |-> Response(0, TextBody(""))]

\* A middleware that checks the credential until a session has been
\* opened and lets every request through from then on.
NewAuthMiddlewareSessionTrust(expectedToken, authHeader) ==
  IF nextSid > 0 \/ authHeader = <<"Bearer", " ">> \o expectedToken
  THEN [next |-> TRUE, resp |-> Response(0, TextBody(""))]
  ELSE [next |-> FALSE,
        resp |-> Response(StatusUnauthorized, ErrorBody("invalid token"))]

NewAuthMiddleware(expectedToken, authHeader) ==
  LET parts == SplitN2(authHeader)
  IN  IF authHeader = <<>>
      THEN [next |-> FALSE,
            resp |-> Response(StatusUnauthorized, ErrorBody("missing authorization header"))]
      ELSE IF Len(parts) # 2 \/ parts[1] # Str("Bearer")
      THEN [next |-> FALSE,
            resp |-> Response(StatusUnauthorized, ErrorBody("invalid authorization format"))]
      ELSE IF parts[2] # expectedToken
      THEN [next |-> FALSE,
            resp |-> Response(StatusUnauthorized, ErrorBody("invalid token"))]
      ELSE [next |-> TRUE, resp |-> Response(0, TextBody(""))]

\* ------------------------------------------------------------- routing

\* A mux that also registers the MCP handler, unwrapped, at /mcp.
MuxBypass(path) ==
  IF path = "/health" THEN "health" ELSE IF path = "/mcp" THEN "mcp" ELSE "auth"

\* A mux that serves /health through the auth middleware too.
MuxHealthBehindAuth(path) == "auth"

\* http.ServeMux with "/" -> authHandler and "/health" -> healthCheckHandler:
\* "/health" matches that path alone, "/" matches every other path.
Mux(path) == IF path = "/health" THEN "health" ELSE "auth"

healthCheckHandler == Response(StatusOK, HealthBody)

\* -------------------------------------------------------------- bridge

\* main's lifecycle context (its cancellation is the variable ctxCancelled).
MainCtx == "ctx"

Implementation == [Name |-> "portainer-mcp-wrapper", Version |-> "1.0.0"]

\* CreateMCPServer that gives --tools-file without its value.
CreateMCPServerBareToolsFlag(ctx, c) ==
  LET args == <<"--server", c.PortainerURL, "--api-token", c.PortainerAPIToken>>
              \o (IF c.MCPToolsFile # "" THEN <<"--tools-file">> ELSE <<>>)
              \o (IF c.DisableVersionCheck THEN <<"--disable-version-check">> ELSE <<>>)
              \o (IF c.ReadOnlyMode THEN <<"--read-only">> ELSE <<>>)
      cmd  == [Path |-> c.MCPBinaryPath, Args |-> args, ctx |-> ctx,
               started |-> FALSE]
  IN  [server |-> Implementation, err |-> "", cmd |-> cmd, cfg |-> c]

\* CreateMCPServer that blanks the API token in the Config once the
\* arguments hold it.
CreateMCPServerScrubsToken(ctx, c) ==
  LET args == <<"--server", c.PortainerURL, "--api-token", c.PortainerAPIToken>>
              \o (IF c.MCPToolsFile # "" THEN <<"--tools-file", c.MCPToolsFile>> ELSE <<>>)
              \o (IF c.DisableVersionCheck THEN <<"--disable-version-check">> ELSE <<>>)
              \o (IF c.ReadOnlyMode THEN <<"--read-only">> ELSE <<>>)
      cmd  == [Path |-> c.MCPBinaryPath, Args |-> args, ctx |-> ctx,
               started |-> FALSE]
  IN  [server |-> Implementation, err |-> "", cmd |-> cmd,
       cfg |-> [c EXCEPT !.PortainerAPIToken = ""]]

\* CreateMCPServer(ctx, cfg): the server and the error ("" is nil) it
\* returns. cmd is the exec.Cmd it builds with exec.CommandContext and then
\* drops (`_ = cmd`); it is carried here so that what was built can be
\* observed. started is whether cmd.Start has been called: the function
\* never calls it. cfg is the Config its pointer argument points to, as the
\* call leaves it: the function only reads it.
CreateMCPServer(ctx, c) ==
  LET args == <<"--server", c.PortainerURL, "--api-token", c.PortainerAPIToken>>
              \o (IF c.MCPToolsFile # "" THEN <<"--tools-file", c.MCPToolsFile>> ELSE <<>>)
              \o (IF c.DisableVersionCheck THEN <<"--disable-version-check">> ELSE <<>>)
              \o (IF c.ReadOnlyMode THEN <<"--read-only">> ELSE <<>>)
      cmd  == [Path |-> c.MCPBinaryPath, Args |-> args, ctx |-> ctx,
               started |-> FALSE]
  IN  [server |-> Implementation, err |-> "", cmd |-> cmd, cfg |-> c]

\* GetPortainerCommand without the --read-only flag.
GetPortainerCommandNoReadOnly(c) ==
  LET args == <<"--server", c.PortainerURL, "--api-token", c.PortainerAPIToken>>
              \o (IF c.MCPToolsFile # "" THEN <<"--tools-file", c.MCPToolsFile>> ELSE <<>>)
              \o (IF c.DisableVersionCheck THEN <<"--disable-version-check">> ELSE <<>>)
  IN  [Path |-> c.MCPBinaryPath, Args |-> args, ctx |-> "none", started |-> FALSE]

\* GetPortainerCommand(cfg): the exec.Cmd it returns, made with
\* exec.Command (no context).
GetPortainerCommand(c) ==
  LET args == <<"--server", c.PortainerURL, "--api-token", c.PortainerAPIToken>>
              \o (IF c.MCPToolsFile # "" THEN <<"--tools-file", c.MCPToolsFile>> ELSE <<>>)
              \o (IF c.DisableVersionCheck THEN <<"--disable-version-check">> ELSE <<>>)
              \o (IF c.ReadOnlyMode THEN <<"--read-only">> ELSE <<>>)
  IN  [Path |-> c.MCPBinaryPath, Args |-> args, ctx |-> "none", started |-> FALSE]

\* A variant of the factory that passes the request's path on to the
\* subprocess as its server address.
getServerFromRequest(req) ==
  LET r == CreateMCPServer(MainCtx, [cfg EXCEPT !.PortainerURL = req.path])
  IN  IF r.err # ""
      THEN [server |-> NilServer, cmd |-> r.cmd, cfg |-> cfg,
            logged |-> {"Failed to create MCP server"}]
      ELSE [server |-> r.server, cmd |-> r.cmd, cfg |-> cfg, logged |-> {}]

\* main's getServer closure over ctx and cfg: the server it returns (nil on
\* an error, which it logs), and the Config as the call leaves it.
getServer(req) ==
  LET r == CreateMCPServer(MainCtx, cfg)
  IN  IF r.err # ""
      THEN [server |-> NilServer, cmd |-> r.cmd, cfg |-> r.cfg,
            logged |-> {"Failed to create MCP server"}]
      ELSE [server |-> r.server, cmd |-> r.cmd, cfg |-> r.cfg, logged |-> {}]

\* The streamable HTTP handler main builds around getServer (Stateless:
\* false): a request naming a session is served by that session or answered
\* "session not found"; a request naming none asks getServer for a server
\* and opens a session on it, or is refused when getServer returns nil.
StreamableHTTPHandler(req) ==
  IF req.sid # NoSid
  THEN IF req.sid \in DOMAIN sessions
       THEN [resp |-> Response(StatusOK, TextBody("served")), made |-> FALSE,
             open |-> FALSE, cmd |-> NilServer, server |-> NilServer, logged |-> {}, cfg |-> cfg]
       ELSE [resp |-> Response(StatusNotFound, TextBody("session not found")),
             made |-> FALSE, open |-> FALSE, cmd |-> NilServer, server |-> NilServer,
             logged |-> {}, cfg |-> cfg]
  ELSE LET g == getServer(req)
       IN  IF g.server = NilServer
           THEN [resp |-> Response(StatusBadRequest, TextBody("no server available")),
                 made |-> TRUE, open |-> FALSE, cmd |-> g.cmd, server |-> g.server,
                 logged |-> g.logged, cfg |-> g.cfg]
           ELSE [resp |-> Response(StatusOK, TextBody("served")), made |-> TRUE,
                 open |-> TRUE, cmd |-> g.cmd, server |-> g.server, logged |-> g.logged, cfg |-> g.cfg]

\* ------------------------------------------------------------- service

Alive == mainPc \notin {"exited", "fatal"}

InFlight == {s \in Slots : reqs[s].st = "handler"}

\* main, lines 20-31: LoadConfig and the start-up log lines; log.Fatalf
\* ends the process when LoadConfig fails.
MainLoadConfig ==
  /\ mainPc = "load"
  /\ LET r == LoadConfig(env)
     IN  IF r.err # ""
         THEN /\ mainPc' = "fatal"
              /\ log' = log \cup {"Failed to load configuration"}
              /\ cfg' = cfg
         ELSE /\ mainPc' = "setup"
              /\ cfg' = r.cfg
              /\ log' = log \cup {"Starting Portainer MCP Wrapper"}
                            \cup (IF r.cfg.ReadOnlyMode THEN {"WARNING: READ-ONLY mode"} ELSE {})
  /\ UNCHANGED <<env, sigPc, srv, ctxCancelled, reqs, sessions, nextSid>>
  /\ UNCHANGED nonSvcVars

\* main, lines 33-94: the context, the handlers, the mux and the server are
\* built, the shutdown goroutine is started and ListenAndServe listens.
MainListen ==
  /\ mainPc = "setup"
  /\ mainPc' = "serving"
  /\ sigPc' = "wait"
  /\ srv' = "listening"
  /\ log' = log \cup {"listening"}
  /\ UNCHANGED <<env, cfg, ctxCancelled, reqs, sessions, nextSid>>
  /\ UNCHANGED nonSvcVars

\* ListenAndServe fails to bind the port: log.Fatalf ends the process.
MainListenFails ==
  /\ mainPc = "setup"
  /\ mainPc' = "fatal"
  /\ sigPc' = "wait"
  /\ log' = log \cup {"listening", "Server failed"}
  /\ UNCHANGED <<env, cfg, srv, ctxCancelled, reqs, sessions, nextSid>>
  /\ UNCHANGED nonSvcVars

\* One inbound request, from accept to the handler the mux routes it to:
\* the health handler answers at once, the auth middleware answers a
\* request it rejects and hands one it accepts to the MCP handler.
Accept(s, path, hdr, sid) ==
  /\ Alive
  /\ srv = "listening"
  /\ reqs[s].st = "free"
  /\ LET route == Mux(path)
         a     == NewAuthMiddleware(cfg.MCPAccessToken, hdr)
         req   == [FreeReq EXCEPT !.path = path, !.hdr = hdr, !.sid = sid]
     IN  /\ (route # "health" /\ a.next /\ sid = NoSid) => nextSid < MaxSessions
         /\ reqs' = [reqs EXCEPT ![s] =
              IF route = "health"
              THEN [req EXCEPT !.st = "done",
                               !.status = healthCheckHandler.status,
                               !.body = healthCheckHandler.body]
              ELSE IF route = "auth" /\ ~a.next
              THEN [req EXCEPT !.st = "done", !.status = a.resp.status,
                               !.body = a.resp.body]
              ELSE IF route = "auth"
              THEN [req EXCEPT !.st = "handler", !.reached = TRUE,
                               !.status = a.resp.status, !.body = a.resp.body]
              ELSE [req EXCEPT !.st = "handler", !.reached = TRUE]]
  /\ UNCHANGED <<env, cfg, mainPc, sigPc, srv, ctxCancelled, sessions, nextSid, log>>
  /\ UNCHANGED nonSvcVars

\* The MCP handler serves a request the middleware handed to it.
Handle(s) ==
  /\ Alive
  /\ reqs[s].st = "handler"
  /\ LET h == StreamableHTTPHandler(reqs[s])
     IN  /\ reqs' = [reqs EXCEPT ![s] =
              [@ EXCEPT !.st = "done", !.made = h.made,
                        !.status = IF @ = 0 THEN h.resp.status ELSE @,
                        !.body = IF reqs[s].status = 0 THEN h.resp.body ELSE @]]
         /\ IF h.open
            THEN /\ nextSid' = nextSid + 1
                 /\ sessions' = [i \in DOMAIN sessions \cup {nextSid + 1} |->
                      IF i = nextSid + 1
                      THEN [server |-> h.server, cmd |-> h.cmd, path |-> reqs[s].path]
                      ELSE sessions[i]]
            ELSE UNCHANGED <<sessions, nextSid>>
         /\ log' = log \cup h.logged
         /\ cfg' = h.cfg
  /\ UNCHANGED <<env, mainPc, sigPc, srv, ctxCancelled>>
  /\ UNCHANGED nonSvcVars

\* The response has been written and the connection slot is free again.
Complete(s) ==
  /\ Alive
  /\ reqs[s].st = "done"
  /\ reqs' = [reqs EXCEPT ![s] = FreeReq]
  /\ UNCHANGED <<env, cfg, mainPc, sigPc, srv, ctxCancelled, sessions, nextSid, log>>
  /\ UNCHANGED nonSvcVars

\* The operating system delivers SIGINT or SIGTERM to the goroutine.
Signal ==
  /\ Alive
  /\ sigPc = "wait"
  /\ sigPc' = "shutdown"
  /\ log' = log \cup {"Shutdown signal received"}
  /\ UNCHANGED <<env, cfg, mainPc, srv, ctxCancelled, reqs, sessions, nextSid>>
  /\ UNCHANGED nonSvcVars

\* srv.Shutdown starts: the listeners are closed and no request is accepted
\* any more; Shutdown then waits for the connections to become idle.
ShutdownBegin ==
  /\ Alive
  /\ sigPc = "shutdown"
  /\ sigPc' = "draining"
  /\ srv' = "shutdown"
  /\ UNCHANGED <<env, cfg, mainPc, ctxCancelled, reqs, sessions, nextSid, log>>
  /\ UNCHANGED nonSvcVars

\* srv.Shutdown returns nil: every connection is idle.
ShutdownDrained ==
  /\ Alive
  /\ sigPc = "draining"
  /\ InFlight = {}
  /\ \A s \in Slots : reqs[s].st # "done"
  /\ sigPc' = "cancel"
  /\ UNCHANGED <<env, cfg, mainPc, srv, ctxCancelled, reqs, sessions, nextSid, log>>
  /\ UNCHANGED nonSvcVars

\* srv.Shutdown returns the context's error: the 10 s of shutdownCtx are
\* over and a connection is still busy.
ShutdownTimeout ==
  /\ Alive
  /\ sigPc = "draining"
  /\ \E s \in Slots : reqs[s].st \in {"handler", "done"}
  /\ sigPc' = "cancel"
  /\ log' = log \cup {"Server shutdown error"}
  /\ UNCHANGED <<env, cfg, mainPc, srv, ctxCancelled, reqs, sessions, nextSid>>
  /\ UNCHANGED nonSvcVars

\* The goroutine's cancel() after Shutdown has returned.
SigCancel ==
  /\ Alive
  /\ sigPc = "cancel"
  /\ sigPc' = "done"
  /\ ctxCancelled' = TRUE
  /\ UNCHANGED <<env, cfg, mainPc, srv, reqs, sessions, nextSid, log>>
  /\ UNCHANGED nonSvcVars

\* ListenAndServe returns ErrServerClosed and main takes it for a failure:
\* log.Fatalf ends the process.
MainServeReturnsFatal ==
  /\ mainPc = "serving"
  /\ srv = "shutdown"
  /\ mainPc' = "fatal"
  /\ log' = log \cup {"Server failed"}
  /\ UNCHANGED <<env, cfg, sigPc, srv, ctxCancelled, reqs, sessions, nextSid>>
  /\ UNCHANGED nonSvcVars

\* ListenAndServe returns ErrServerClosed as soon as Shutdown has been
\* called; main does not treat it as a failure.
MainServeReturns ==
  /\ mainPc = "serving"
  /\ srv = "shutdown"
  /\ mainPc' = "returned"
  /\ UNCHANGED <<env, cfg, sigPc, srv, ctxCancelled, reqs, sessions, nextSid, log>>
  /\ UNCHANGED nonSvcVars

\* main logs, runs its deferred cancel() and returns: the process exits
\* and whatever its goroutines were serving is cut off.
MainReturn ==
  /\ mainPc = "returned"
  /\ mainPc' = "exited"
  /\ ctxCancelled' = TRUE
  /\ log' = log \cup {"Server stopped gracefully"}
  /\ reqs' = [s \in Slots |->
       IF reqs[s].st = "handler"
       THEN [reqs[s] EXCEPT !.st = "aborted"] ELSE reqs[s]]
  /\ UNCHANGED <<env, cfg, sigPc, srv, sessions, nextSid>>
  /\ UNCHANGED nonSvcVars

SvcInit ==
  /\ env \in EnvSet
  /\ cfg = NoConfig
  /\ mainPc = "load"
  /\ sigPc = "off"
  /\ srv = "new"
  /\ ctxCancelled = FALSE
  /\ reqs = [s \in Slots |-> FreeReq]
  /\ sessions = <<>>
  /\ nextSid = 0
  /\ log = {}

SvcNext ==
  \/ MainLoadConfig
  \/ MainListen
  \/ MainListenFails
  \/ \E s \in Slots, path \in Paths, hdr \in SvcHeaders,
          sid \in {NoSid, UnknownSid} \cup DOMAIN sessions :
       Accept(s, path, hdr, sid)
  \/ \E s \in Slots : Handle(s)
  \/ \E s \in Slots : Complete(s)
  \/ Signal
  \/ ShutdownBegin
  \/ ShutdownDrained
  \/ ShutdownTimeout
  \/ SigCancel
  \/ MainServeReturns
  \/ MainReturn

\* --------------------------------------------------- the gate alone

NoOut == [route |-> "none", next |-> FALSE, resp |-> Response(0, TextBody(""))]

\* mux.Handle("/", authHandler), mux.HandleFunc("/health", ...): the route
\* the mux takes for the request, whether the middleware calls the wrapped
\* handler, and the response written before the wrapped handler runs.
ServeMux(expectedToken, req) ==
  LET route == Mux(req.path)
      a     == NewAuthMiddleware(expectedToken, req.hdr)
  IN  IF route = "health"
      THEN [route |-> route, next |-> FALSE, resp |-> healthCheckHandler]
      ELSE IF route = "auth"
      THEN [route |-> route, next |-> a.next, resp |-> a.resp]
      ELSE [route |-> route, next |-> TRUE, resp |-> Response(0, TextBody(""))]

\* The mux serves the request.
GateServe ==
  /\ authOut = NoOut
  /\ authOut' = ServeMux(authTok, authReq)
  /\ UNCHANGED <<authTok, authReq>>
  /\ UNCHANGED nonGateVars

\* The next request arrives at the same service.
GateNextRequest ==
  /\ authOut # NoOut
  /\ authReq' \in [path : Paths, hdr : Headers]
  /\ authOut' = NoOut
  /\ UNCHANGED authTok
  /\ UNCHANGED nonGateVars

GateInit ==
  /\ authTok \in Tokens
  /\ authReq \in [path : Paths, hdr : Headers]
  /\ authOut = NoOut

GateIdle ==
  /\ authTok = <<"tok">>
  /\ authReq = [path |-> "/", hdr |-> <<>>]
  /\ authOut = NoOut

SvcIdle ==
  /\ env = CHOOSE e \in EnvSet : LoadConfig(e).err = ""
  /\ cfg = NoConfig
  /\ mainPc = "load"
  /\ sigPc = "off"
  /\ srv = "new"
  /\ ctxCancelled = FALSE
  /\ reqs = [s \in Slots |-> FreeReq]
  /\ sessions = <<>>
  /\ nextSid = 0
  /\ log = {}

\* ------------------------------------------------- the stdio bridge
\* PortainerMCPBridge of docs/04-code-examples.md, from the state
\* NewPortainerMCPBridge leaves: the subprocess started, its pipes open.

Writers == 1..MaxWriters

NL == "\n"

\* bufio.ScanLines over a stream of bytes: the complete lines, and the
\* unterminated rest.
RECURSIVE LinesOf(_, _, _)
LinesOf(stream, cur, acc) ==
  IF stream = <<>> THEN [lines |-> acc, rest |-> cur]
  ELSE IF Head(stream) = NL THEN LinesOf(Tail(stream), <<>>, Append(acc, cur))
  ELSE LinesOf(Tail(stream), Append(cur, Head(stream)), acc)

\* The characters a string of a message is made of: a letter, the double
\* quote, the backslash and the line feed.
QUOTE == "\""

BACKSLASH == "\\"

Chars == {"n", QUOTE, BACKSLASH, NL}

\* The messages callers hand to SendMessage: a JSON-RPC object with an id,
\* a number that is an ordinary one or a float NaN, and a string.
Msgs == [id : {"1", "2"}, val : {"ok", "NaN"}, text : {<<>>}]

NoMsg == [id |-> "", val |-> "", text |-> <<>>]

\* The messages the codec is tried on: the same, with every string of up to
\* MaxTextLen characters.
CodecMsgs ==
  [id : {"1", "2"}, val : {"ok", "NaN"}, text : SeqsUpTo(Chars, MaxTextLen)]

\* json.Marshal of one character of a string, written as is.
EscapeCharRaw(c) == <<c>>

\* json.Marshal of one character of a string: the quote, the backslash and
\* the line feed are written as two-character escapes.
EscapeChar(c) ==
  IF c = NL THEN <<BACKSLASH, "n">>
  ELSE IF c \in {QUOTE, BACKSLASH} THEN <<BACKSLASH, c>>
  ELSE <<c>>

RECURSIVE Escape(_)
Escape(text) ==
  IF text = <<>> THEN <<>> ELSE EscapeChar(Head(text)) \o Escape(Tail(text))

\* json.Marshal: the bytes of the object on one line, or an error for a
\* value JSON cannot represent.
Marshal(m) ==
  IF m.val = "NaN"
  THEN [err |-> "json: unsupported value", data |-> <<>>]
  ELSE [err |-> "",
        data |-> <<"{", m.id, QUOTE>> \o Escape(m.text) \o <<QUOTE, "}">>]

\* The decoding of a JSON string's body: escapes are undone; a bare quote,
\* a bare line feed, an unknown or an unfinished escape is a syntax error.
RECURSIVE Unescape(_)
Unescape(body) ==
  IF body = <<>> THEN [err |-> "", s |-> <<>>]
  ELSE IF Head(body) = BACKSLASH
  THEN IF Len(body) < 2 \/ body[2] \notin {"n", QUOTE, BACKSLASH}
       THEN [err |-> "invalid character", s |-> <<>>]
       ELSE LET r == Unescape(SubSeq(body, 3, Len(body)))
                c == IF body[2] = "n" THEN NL ELSE body[2]
            IN  [err |-> r.err, s |-> <<c>> \o r.s]
  ELSE IF Head(body) \in {QUOTE, NL}
  THEN [err |-> "invalid character", s |-> <<>>]
  ELSE LET r == Unescape(Tail(body))
       IN  [err |-> r.err, s |-> <<Head(body)>> \o r.s]

\* json.Unmarshal(line, &msg): the object of a well-formed line, or a
\* syntax error.
Unmarshal(line) ==
  IF \/ Len(line) < 5
     \/ line[1] # "{" \/ line[2] \notin {"1", "2"} \/ line[3] # QUOTE
     \/ line[Len(line) - 1] # QUOTE \/ line[Len(line)] # "}"
  THEN [err |-> "failed to unmarshal message", msg |-> NoMsg]
  ELSE LET r == Unescape(SubSeq(line, 4, Len(line) - 2))
       IN  IF r.err # ""
           THEN [err |-> "failed to unmarshal message", msg |-> NoMsg]
           ELSE [err |-> "",
                 msg |-> [id |-> line[2], val |-> "ok", text |-> r.s]]

\* b.mu.Lock() without the wait: it takes the mutex whoever holds it.
MutexLockNoWait(w) == bMu' = w

\* b.mu.Lock(): blocks until the mutex is free, then holds it.
MutexLock(w) == bMu = 0 /\ bMu' = w

\* A goroutine calls SendMessage(msg).
SendMessageCall(w, m) ==
  /\ wPc[w] = "idle"
  /\ nSends < MaxSends
  /\ nSends' = nSends + 1
  /\ wPc' = [wPc EXCEPT ![w] = "lock"]
  /\ wMsg' = [wMsg EXCEPT ![w] = m]
  /\ wRet' = [wRet EXCEPT ![w] = "pending"]
  /\ UNCHANGED <<bMu, bStdin, bStdinClosed, bProc, wBuf>>
  /\ UNCHANGED nonBridgeVars

\* b.mu.Lock(); defer b.mu.Unlock()
SendMessageLock(w) ==
  /\ wPc[w] = "lock"
  /\ MutexLock(w)
  /\ wPc' = [wPc EXCEPT ![w] = "marshal"]
  /\ UNCHANGED <<bStdin, bStdinClosed, bProc, wMsg, wBuf, wRet, nSends>>
  /\ UNCHANGED nonBridgeVars

\* json.Marshal with its error dropped: the buffer to write is whatever
\* data it returned and '\n'.
SendMessageMarshalIgnoreErr(w) ==
  /\ wPc[w] = "marshal"
  /\ wPc' = [wPc EXCEPT ![w] = "write"]
  /\ wBuf' = [wBuf EXCEPT ![w] = Append(Marshal(wMsg[w]).data, NL)]
  /\ UNCHANGED <<bMu, bStdin, bStdinClosed, bProc, wMsg, wRet, nSends>>
  /\ UNCHANGED nonBridgeVars

\* data, err := json.Marshal(msg): on an error SendMessage returns it (the
\* deferred Unlock runs); otherwise the buffer to write is data and '\n'.
SendMessageMarshal(w) ==
  /\ wPc[w] = "marshal"
  /\ LET r == Marshal(wMsg[w])
     IN  IF r.err # ""
         THEN /\ wPc' = [wPc EXCEPT ![w] = "unlock"]
              /\ wRet' = [wRet EXCEPT ![w] = "failed to marshal message"]
              /\ wBuf' = wBuf
         ELSE /\ wPc' = [wPc EXCEPT ![w] = "write"]
              /\ wBuf' = [wBuf EXCEPT ![w] = Append(r.data, NL)]
              /\ wRet' = wRet
  /\ UNCHANGED <<bMu, bStdin, bStdinClosed, bProc, wMsg, nSends>>
  /\ UNCHANGED nonBridgeVars

\* b.stdin.Write(buf): the pipe takes the buffer a piece at a time; the
\* write fails, with what it has written left in the pipe, once the pipe
\* is closed or the subprocess has exited.
SendMessageWrite(w) ==
  /\ wPc[w] = "write"
  /\ IF bStdinClosed \/ bProc = "exited"
     THEN /\ wPc' = [wPc EXCEPT ![w] = "unlock"]
          /\ wRet' = [wRet EXCEPT ![w] = "failed to write message"]
          /\ UNCHANGED <<bStdin, wBuf>>
     ELSE /\ bStdin' = Append(bStdin, Head(wBuf[w]))
          /\ wBuf' = [wBuf EXCEPT ![w] = Tail(@)]
          /\ IF Len(wBuf[w]) = 1
             THEN /\ wPc' = [wPc EXCEPT ![w] = "unlock"]
                  /\ wRet' = [wRet EXCEPT ![w] = "nil"]
             ELSE UNCHANGED <<wPc, wRet>>
  /\ UNCHANGED <<bMu, bStdinClosed, bProc, wMsg, nSends>>
  /\ UNCHANGED nonBridgeVars

\* SendMessage returns: the deferred b.mu.Unlock().
SendMessageUnlock(w) ==
  /\ wPc[w] = "unlock"
  /\ bMu' = 0
  /\ wPc' = [wPc EXCEPT ![w] = "idle"]
  /\ wBuf' = [wBuf EXCEPT ![w] = <<>>]
  /\ UNCHANGED <<bStdin, bStdinClosed, bProc, wMsg, wRet, nSends>>
  /\ UNCHANGED nonBridgeVars

\* Close is called: b.stdin.Close(). Closing a pipe that is closed already
\* returns an error that Close drops.
BridgeClose ==
  /\ cPc = "idle"
  /\ nCloses < MaxCloses
  /\ nCloses' = nCloses + 1
  /\ bStdinClosed' = TRUE
  /\ cPc' = "wait"
  /\ cRet' = "pending"
  /\ UNCHANGED <<bMu, bStdin, bProc, wPc, wMsg, wBuf, wRet, nSends>>
  /\ UNCHANGED <<bStdoutClosed, bWaited>>
  /\ UNCHANGED <<svcVars, authVars, codecVars, cmdVars, readerVars>>

\* return b.cmd.Wait(): it returns once the subprocess has exited, closing
\* the read ends of the pipes; a second Wait returns an error at once.
BridgeCloseWait ==
  /\ cPc = "wait"
  /\ bProc = "exited"
  /\ cRet' = IF bWaited THEN "exec: Wait was already called" ELSE "exited"
  /\ bWaited' = TRUE
  /\ bStdoutClosed' = TRUE
  /\ cPc' = "idle"
  /\ UNCHANGED nCloses
  /\ UNCHANGED <<svcVars, authVars, codecVars, cmdVars, readerVars, bridgeVars>>

\* The subprocess exits (on its own, or having read the end of its stdin).
ProcExit ==
  /\ bProc = "running"
  /\ bProc' = "exited"
  /\ UNCHANGED <<bMu, bStdin, bStdinClosed, wPc, wMsg, wBuf, wRet, nSends>>
  /\ UNCHANGED nonBridgeVars

\* A line that is not JSON.
Garbage == <<"oops">>

\* The lines the subprocess writes to stdout: encoded messages, garbage
\* and the empty line.
OutLines ==
  {Marshal(m).data : m \in {x \in Msgs : Marshal(x).err = ""}}
    \cup {Garbage, <<>>}

\* The subprocess writes one line, with its terminator, to stdout.
ProcWrite(l) ==
  /\ bProc = "running"
  /\ Len(pWritten) < MaxOut
  /\ pWritten' = Append(pWritten, l)
  /\ bStdout' = bStdout \o Append(l, NL)
  /\ UNCHANGED <<rPc, rBuf, rRet, rLog>>
  /\ UNCHANGED nonReaderVars

HasLine(buf) == \E i \in 1..Len(buf) : buf[i] = NL

\* The write end of stdout is closed and everything written has been read.
PipeEOFNever == FALSE

PipeEOF == bProc = "exited" /\ bStdout = <<>>

\* ReadMessage is called: scanner := bufio.NewScanner(b.stdout), a scanner
\* with an empty buffer.
ReadMessageCall ==
  /\ rPc = "idle"
  /\ rPc' = "scan"
  /\ rBuf' = <<>>
  /\ rRet' = "pending"
  /\ UNCHANGED <<bStdout, pWritten, rLog>>
  /\ UNCHANGED nonReaderVars

\* scanner.Scan() without a whole line in its buffer reads from the pipe:
\* the read returns k of the bytes that are there.
ScannerRead(k) ==
  /\ rPc = "scan"
  /\ ~HasLine(rBuf)
  /\ ~bStdoutClosed
  /\ k \in 1..Len(bStdout)
  /\ rBuf' = rBuf \o SubSeq(bStdout, 1, k)
  /\ bStdout' = SubSeq(bStdout, k + 1, Len(bStdout))
  /\ UNCHANGED <<pWritten, rPc, rRet, rLog>>
  /\ UNCHANGED nonReaderVars

\* What json.Unmarshal of a token adds to the record of attempts.
Attempt(tok) ==
  LET r == Unmarshal(tok)
  IN  [line |-> tok, err |-> r.err, msg |-> r.msg]

\* scanner.Scan() with a whole line in its buffer returns true;
\* json.Unmarshal(scanner.Bytes(), &msg); ReadMessage returns the message
\* or the error. The scanner, and what else its buffer holds, is dropped.
ReadMessageDecode ==
  /\ rPc = "scan"
  /\ HasLine(rBuf)
  /\ LET a == Attempt(LinesOf(rBuf, <<>>, <<>>).lines[1])
     IN  /\ rLog' = Append(rLog, a)
         /\ rRet' = IF a.err = "" THEN "msg" ELSE a.err
  /\ rPc' = "idle"
  /\ rBuf' = <<>>
  /\ UNCHANGED <<bStdout, pWritten>>
  /\ UNCHANGED nonReaderVars

\* scanner.Scan() at the end of the stream or on a read error: what the
\* buffer holds is the last token; with an empty buffer Scan returns false
\* and ReadMessage returns io.EOF or the read error.
ReadMessageEnd ==
  /\ rPc = "scan"
  /\ ~HasLine(rBuf)
  /\ bStdoutClosed \/ PipeEOF
  /\ IF rBuf # <<>>
     THEN LET a == Attempt(rBuf)
          IN  /\ rLog' = Append(rLog, a)
              /\ rRet' = IF a.err = "" THEN "msg" ELSE a.err
     ELSE /\ rLog' = rLog
          /\ rRet' = IF bStdoutClosed THEN "failed to read message" ELSE "EOF"
  /\ rPc' = "idle"
  /\ rBuf' = <<>>
  /\ UNCHANGED <<bStdout, pWritten>>
  /\ UNCHANGED nonReaderVars

BridgeInit ==
  /\ bMu = 0
  /\ bStdin = <<>>
  /\ bStdinClosed = FALSE
  /\ bProc = "running"
  /\ wPc = [w \in Writers |-> "idle"]
  /\ wMsg = [w \in Writers |-> NoMsg]
  /\ wBuf = [w \in Writers |-> <<>>]
  /\ wRet = [w \in Writers |-> "none"]
  /\ nSends = 0
  /\ bStdout = <<>>
  /\ bStdoutClosed = FALSE
  /\ bWaited = FALSE
  /\ pWritten = <<>>
  /\ rPc = "idle"
  /\ rBuf = <<>>
  /\ rRet = "none"
  /\ rLog = <<>>
  /\ cPc = "idle"
  /\ cRet = "none"
  /\ nCloses = 0

\* ------------------------------------------------------- the codec
\* What SendMessage writes for a message, and what ReadMessage makes of
\* that line.

\* data, err := json.Marshal(msg); append(data, '\n')
CodecEncode ==
  /\ cdPc = "msg"
  /\ LET r == Marshal(cdMsg)
     IN  IF r.err # ""
         THEN cdPc' = "failed" /\ cdLine' = cdLine
         ELSE cdPc' = "encoded" /\ cdLine' = Append(r.data, NL)
  /\ UNCHANGED <<cdMsg, cdOut>>
  /\ UNCHANGED nonCodecVars

\* scanner.Scan(); json.Unmarshal(scanner.Bytes(), &msg)
CodecDecode ==
  /\ cdPc = "encoded"
  /\ cdOut' = Unmarshal(LinesOf(cdLine, <<>>, <<>>).lines[1])
  /\ cdPc' = "decoded"
  /\ UNCHANGED <<cdMsg, cdLine>>
  /\ UNCHANGED nonCodecVars

NoResult == [err |-> "", msg |-> NoMsg]

CodecInit ==
  /\ cdPc = "msg"
  /\ cdMsg \in CodecMsgs
  /\ cdLine = <<>>
  /\ cdOut = NoResult

CodecIdle ==
  /\ cdPc = "msg"
  /\ cdMsg = NoMsg
  /\ cdLine = <<>>
  /\ cdOut = NoResult

\* ------------------------------------------------- the two commands
\* The command CreateMCPServer builds for a session and the command
\* GetPortainerCommand returns for debugging, for one configuration.

\* The environments the command builders are tried under.
CmdEnvSet ==
  [PORTAINER_URL         : {"", "http://p2:9000"},
   PORTAINER_API_TOKEN   : {"ptr_x", "--read-only"},
   MCP_ACCESS_TOKEN      : {<<"tok">>},
   MCP_PORT              : {"", "8081"},
   MCP_TOOLS_FILE        : {"", "/tools.yaml"},
   DISABLE_VERSION_CHECK : {"", "true", "yes"},
   READ_ONLY_MODE        : {"", "1", "false"},
   MCP_BINARY_PATH       : {"", "/nonexistent"}]

\* The configurations LoadConfig returns for them.
CmdConfigs == {LoadConfig(e).cfg : e \in {x \in CmdEnvSet : LoadConfig(x).err = ""}}

NoCmd == [Path |-> "", Args |-> <<>>, ctx |-> "none", started |-> FALSE]

\* bridge.CreateMCPServer(ctx, cfg) is called: the command it builds.
CmdCreateMCPServer ==
  /\ cmSession = NoCmd
  /\ LET r == CreateMCPServer(MainCtx, cmCfg)
     IN  cmSession' = r.cmd /\ cmCfg' = r.cfg
  /\ UNCHANGED cmDebug
  /\ UNCHANGED nonCmdVars

\* bridge.GetPortainerCommand(cfg) is called.
CmdGetPortainerCommand ==
  /\ cmDebug = NoCmd
  /\ cmDebug' = GetPortainerCommand(cmCfg)
  /\ UNCHANGED <<cmCfg, cmSession>>
  /\ UNCHANGED nonCmdVars

CmdInit ==
  /\ cmCfg \in CmdConfigs
  /\ cmSession = NoCmd
  /\ cmDebug = NoCmd

CmdIdle ==
  /\ cmCfg = NoConfig
  /\ cmSession = NoCmd
  /\ cmDebug = NoCmd

\* ---------------------------------------------------- specifications

vars == <<svcVars, authVars, stdioVars, codecVars, cmdVars>>

Init == SvcInit /\ GateIdle /\ BridgeInit /\ CodecIdle /\ CmdIdle

Next == SvcNext

Spec == Init /\ [][Next]_vars

InitGate == SvcIdle /\ GateInit /\ BridgeInit /\ CodecIdle /\ CmdIdle

NextGate == GateServe \/ GateNextRequest

SpecGate == InitGate /\ [][NextGate]_vars

InitBridge == SvcIdle /\ GateIdle /\ BridgeInit /\ CodecIdle /\ CmdIdle

NextBridge ==
  \/ \E w \in Writers, m \in Msgs : SendMessageCall(w, m)
  \/ \E w \in Writers : SendMessageLock(w)
  \/ \E w \in Writers : SendMessageMarshal(w)
  \/ \E w \in Writers : SendMessageWrite(w)
  \/ \E w \in Writers : SendMessageUnlock(w)
  \/ BridgeClose
  \/ BridgeCloseWait
  \/ ProcExit

SpecBridge == InitBridge /\ [][NextBridge]_vars

ScannerStep ==
  \/ \E k \in 1..(MaxOut * 8) : ScannerRead(k)
  \/ ReadMessageDecode
  \/ ReadMessageEnd

NextReader ==
  \/ \E l \in OutLines : ProcWrite(l)
  \/ ReadMessageCall
  \/ \E k \in 1..(MaxOut * 8) : ScannerRead(k)
  \/ ReadMessageDecode
  \/ ReadMessageEnd
  \/ BridgeClose
  \/ BridgeCloseWait
  \/ ProcExit

SpecReader == InitBridge /\ [][NextReader]_vars

\* The Go scheduler runs a goroutine that can run: a call of ReadMessage or
\* of Close goes on whenever it is not blocked. The subprocess owes nothing.
SpecReaderFair ==
  InitBridge /\ [][NextReader]_vars /\ WF_vars(ScannerStep)
    /\ WF_vars(BridgeCloseWait)

InitCodec == SvcIdle /\ GateIdle /\ BridgeInit /\ CodecInit /\ CmdIdle

NextCodec == CodecEncode \/ CodecDecode

SpecCodec == InitCodec /\ [][NextCodec]_vars

InitCmd == SvcIdle /\ GateIdle /\ BridgeInit /\ CodecIdle /\ CmdInit

NextCmd == CmdCreateMCPServer \/ CmdGetPortainerCommand

SpecCmd == InitCmd /\ [][NextCmd]_vars

\* The Go scheduler runs main and the shutdown goroutine whenever they can
\* run; clients and the operating system's signals owe nothing.
MainStep == MainServeReturns \/ MainReturn

SpecFair ==
  Init /\ [][Next]_vars /\ WF_vars(ShutdownBegin) /\ WF_vars(MainStep)

\* ============================================================== claims

\* What the specification calls a valid credential: the header is exactly
\* "Bearer", one space, and the token.
ValidBearer(token, hdr) == hdr = <<"Bearer", " ">> \o token

Protected(path) == path # "/health"

\* C1: a request to the protected endpoint is forwarded to the wrapped
\* handler if and only if its Authorization header is exactly "Bearer "
\* followed by the configured token; every other request is answered 401.
C1_ForwardIffExactBearer ==
  (authOut # NoOut /\ Protected(authReq.path)) =>
     /\ authOut.next <=> ValidBearer(authTok, authReq.hdr)
     /\ ~authOut.next => authOut.resp.status = StatusUnauthorized

\* C1 witness: a request with the exact credential was forwarded, for a
\* token that is not the plain word.
C1_Witness ==
  /\ authOut # NoOut
  /\ Protected(authReq.path)
  /\ authOut.next
  /\ authTok # <<"tok">>

\* C2: a request the middleware rejects is answered 401 with a body that
\* has an "error" field, the wrapped handler is not invoked for it and
\* getServer is not called; the step that rejects it leaves the sessions,
\* the servers built and the log as they were.
C2_RejectedInv ==
  \A s \in Slots :
    (reqs[s].st # "free" /\ Protected(reqs[s].path)
       /\ ~ValidBearer(cfg.MCPAccessToken, reqs[s].hdr)) =>
      /\ reqs[s].st = "done"
      /\ reqs[s].status = StatusUnauthorized
      /\ "error" \in DOMAIN reqs[s].body
      /\ ~reqs[s].reached
      /\ ~reqs[s].made

C2_RejectedStep ==
  \A s \in Slots :
    (reqs[s].st = "free" /\ reqs'[s].st # "free" /\ Protected(reqs'[s].path)
       /\ ~ValidBearer(cfg.MCPAccessToken, reqs'[s].hdr)) =>
      UNCHANGED <<sessions, nextSid, log, ctxCancelled>>

C2_RejectedIsInert == [](C2_RejectedInv) /\ [][C2_RejectedStep]_vars

\* C2 witness: a request with the wrong token was rejected while a session
\* exists.
C2_Witness ==
  \E s \in Slots :
    /\ reqs[s].st = "done"
    /\ reqs[s].hdr = <<"Bearer", " ", "bearer">>
    /\ reqs[s].status = StatusUnauthorized
    /\ nextSid > 0

\* C3: a request to /health is answered at once with 200 and the fixed
\* body, whatever the credential, the sessions, the binary and the
\* shutdown state.
C3_HealthAlwaysOK ==
  \A s \in Slots :
    (reqs[s].st # "free" /\ reqs[s].path = "/health") =>
      /\ reqs[s].st = "done"
      /\ reqs[s].status = StatusOK
      /\ reqs[s].body = HealthBody

\* C3 witness: /health answered a request without credential while a
\* session exists and the subprocess binary cannot be started.
C3_Witness ==
  \E s \in Slots :
    /\ reqs[s].st = "done"
    /\ reqs[s].path = "/health"
    /\ reqs[s].hdr = <<>>
    /\ nextSid > 0
    /\ ~Launchable(cfg.MCPBinaryPath)

\* C4: the MCP handler and getServer are reached only by a request that is
\* not for /health and carries the exact credential.
C4_BridgeBehindGate ==
  \A s \in Slots :
    (reqs[s].reached \/ reqs[s].made) =>
      /\ Protected(reqs[s].path)
      /\ ValidBearer(cfg.MCPAccessToken, reqs[s].hdr)

\* C4 witness: a request passed the gate and getServer was called for it.
C4_Witness == \E s \in Slots : reqs[s].reached /\ reqs[s].made

\* What a client supplies with a request.
RequestData == Paths \cup Chunks

\* C5: the executable path and the argument vector built for any two
\* sessions are the same, and no argument is request data.
C5_CommandFromConfigOnly ==
  \A i \in DOMAIN sessions :
    /\ \A j \in DOMAIN sessions :
         /\ sessions[i].cmd.Path = sessions[j].cmd.Path
         /\ sessions[i].cmd.Args = sessions[j].cmd.Args
    /\ \A k \in 1..Len(sessions[i].cmd.Args) :
         sessions[i].cmd.Args[k] \notin RequestData
    /\ sessions[i].cmd.Path \notin RequestData

\* C5 witness: two sessions were opened by requests that differ.
C5_Witness ==
  \E i, j \in DOMAIN sessions : sessions[i].path # sessions[j].path

\* C6: the process does not exit before srv.Shutdown has returned (the
\* drain has finished or the grace period has elapsed).
C6_ExitOnlyAfterDrain ==
  mainPc = "exited" => sigPc \in {"cancel", "done"}

\* C7: a session that got a server has a subprocess started from the
\* configured path, and gets none when that path cannot be started.
C7_SpawnOrLaunchError ==
  \A i \in DOMAIN sessions :
    /\ sessions[i].cmd.started
    /\ Launchable(sessions[i].cmd.Path)

\* C8: when the subprocess cannot be created for a request, the failure is
\* logged and the request gets no server (no session is opened for it).
C8_FailureConfined ==
  \A s \in Slots :
    (reqs[s].made /\ ~Launchable(cfg.MCPBinaryPath)) =>
      /\ "Failed to create MCP server" \in log
      /\ reqs[s].status # StatusOK

\* The subprocess is unavailable: the binary cannot be started, or no
\* session's command has been started.
SubprocessUnavailable ==
  \/ ~Launchable(cfg.MCPBinaryPath)
  \/ \A i \in DOMAIN sessions : ~sessions[i].cmd.started

\* C9: while the subprocess is unavailable, an authenticated request to
\* the protected endpoint is answered 503.
C9_UnavailableIs503 ==
  \A s \in Slots :
    (reqs[s].st = "done" /\ reqs[s].reached /\ SubprocessUnavailable) =>
      reqs[s].status = StatusServiceUnavailable

IsPrefix(p, q) == Len(p) <= Len(q) /\ SubSeq(q, 1, Len(p)) = p

EncodableLines == {Marshal(m).data : m \in {x \in Msgs : Marshal(x).err = ""}}

InCritical == {w \in Writers : wPc[w] \in {"marshal", "write", "unlock"}}

\* C10: at most one SendMessage is between Lock and Unlock at a time, every
\* complete line on stdin is one whole encoded message, and the
\* unterminated rest is the beginning of one message.
C10_StdinWholeLines ==
  /\ Cardinality(InCritical) <= 1
  /\ LET p == LinesOf(bStdin, <<>>, <<>>)
     IN  /\ \A k \in 1..Len(p.lines) : p.lines[k] \in EncodableLines
         /\ \E l \in EncodableLines : IsPrefix(p.rest, l)

\* C10 witness: a caller waits for the mutex while another is in the middle
\* of a line, after a whole line of a different message.
C10_Witness ==
  \E w1, w2 \in Writers :
    /\ w1 # w2
    /\ wPc[w1] = "write"
    /\ wPc[w2] = "lock"
    /\ LET p == LinesOf(bStdin, <<>>, <<>>)
       IN  /\ Len(p.lines) >= 1
           /\ p.rest # <<>>
           /\ ~IsPrefix(p.rest, p.lines[1])

\* The lines json.Unmarshal was attempted on, in order.
AttemptedLines == [i \in 1..Len(rLog) |-> rLog[i].line]

IsDelivered(a) == a.err = ""

IsFailure(a) == a.err # ""

\* The messages ReadMessage returned, in order.
DeliveredMsgs ==
  LET d == SelectSeq(rLog, IsDelivered) IN [i \in 1..Len(d) |-> d[i].msg]

\* C11: the decode attempts are made on the lines the subprocess wrote, one
\* per line and in the order written, however the bytes were chunked across
\* reads: at any time on the first lines written, and on all of them once
\* ReadMessage has reported the end of the stream (Close not being called).
C11_OneDecodePerLine ==
  nCloses = 0 =>
    /\ IsPrefix(AttemptedLines, pWritten)
    /\ rRet = "EOF" => AttemptedLines = pWritten

C13_BadLineSkipped ==
  (/\ nCloses = 0
   /\ rRet = "EOF"
   /\ Len(pWritten) = 3
   /\ pWritten[1] # Garbage /\ pWritten[2] = Garbage /\ pWritten[3] # Garbage)
  => /\ DeliveredMsgs = <<Unmarshal(pWritten[1]).msg, Unmarshal(pWritten[3]).msg>>
     /\ Len(SelectSeq(rLog, IsFailure)) = 1

\* C19: a call of Close returns, whatever the subprocess does.
C19_CloseReturns == (cPc = "wait") ~> (cPc = "idle")

\* A read is blocked on the stdout of a subprocess that has exited: the
\* scanner holds nothing and the pipe is empty.
ReadPendingAtExit ==
  rPc = "scan" /\ bProc = "exited" /\ bStdout = <<>> /\ rBuf = <<>>

\* C20: a ReadMessage blocked on the stdout of a subprocess that has exited
\* returns, with io.EOF or the error of reading a closed pipe.
C20_ReadReturnsOnExit ==
  ReadPendingAtExit ~>
    (rPc = "idle" /\ rRet \in {"EOF", "failed to read message"})

\* C20 witness: ReadMessage returned io.EOF after messages had been read,
\* Close not having been called.
C20_Witness ==
  /\ rPc = "idle"
  /\ rRet = "EOF"
  /\ rLog # <<>>
  /\ nCloses = 0

\* The argument vector the specification gives for a configuration.
ExpectedArgs(c) ==
  <<"--server", c.PortainerURL, "--api-token", c.PortainerAPIToken>>
    \o (IF c.MCPToolsFile # "" THEN <<"--tools-file", c.MCPToolsFile>> ELSE <<>>)
    \o (IF c.DisableVersionCheck THEN <<"--disable-version-check">> ELSE <<>>)
    \o (IF c.ReadOnlyMode THEN <<"--read-only">> ELSE <<>>)

\* C21: the argument vector of the command built for a session, and of the
\* one built for debugging, is --server and the URL, --api-token and the
\* token, --tools-file and the file iff a file is set,
\* --disable-version-check iff set, --read-only iff set, in that order and
\* nothing else.
C21_ArgVector ==
  /\ cmSession # NoCmd => cmSession.Args = ExpectedArgs(cmCfg)
  /\ cmDebug # NoCmd => cmDebug.Args = ExpectedArgs(cmCfg)

\* C21 witness: the session command was built for a configuration with a
\* tools file, read-only mode, no version-check flag and an API token
\* that reads like a flag.
C21_Witness ==
  /\ cmSession # NoCmd
  /\ cmCfg.MCPToolsFile # ""
  /\ cmCfg.ReadOnlyMode
  /\ ~cmCfg.DisableVersionCheck
  /\ cmCfg.PortainerAPIToken = "--read-only"

\* Both required tokens are set in the environment.
TokensSet(e) == e.PORTAINER_API_TOKEN # "" /\ e.MCP_ACCESS_TOKEN # <<>>

\* C22: LoadConfig fails, and main stops with it, exactly when one of the
\* two tokens is empty; otherwise the configuration holds the two
\* environment values, and the server listens only with both tokens set.
C22_TokensRequired ==
  /\ mainPc # "load" => ((cfg = NoConfig) <=> ~TokensSet(env))
  /\ (mainPc # "load" /\ ~TokensSet(env)) =>
       (mainPc = "fatal" /\ "Failed to load configuration" \in log)
  /\ cfg # NoConfig =>
       /\ cfg.PortainerAPIToken = env.PORTAINER_API_TOKEN
       /\ cfg.MCPAccessToken = env.MCP_ACCESS_TOKEN
  /\ srv # "new" => (cfg # NoConfig /\ TokensSet(env))

\* C22 witness: main stopped on an environment that has the access token
\* but not the API token.
C22_Witness ==
  /\ mainPc = "fatal"
  /\ cfg = NoConfig
  /\ env.PORTAINER_API_TOKEN = ""
  /\ env.MCP_ACCESS_TOKEN # <<>>

\* C23: the lifecycle context is cancelled only once srv.Shutdown has
\* returned.
C23_CancelAfterShutdown == ctxCancelled => sigPc \in {"cancel", "done"}

\* C24: once the shutdown signal has been received main returns, and the
\* return of ListenAndServe is not taken for a failure.
C24_SignalTerminates ==
  /\ (sigPc = "shutdown") ~> (mainPc = "exited")
  /\ []("Shutdown signal received" \in log => mainPc # "fatal")

\* C24 witness: main has returned after a signal, the shutdown goroutine
\* having run to its end.
C24_Witness ==
  /\ mainPc = "exited"
  /\ sigPc = "done"
  /\ "Shutdown signal received" \in log

Unencodable(w) == Marshal(wMsg[w]).err # ""

\* C25: a SendMessage whose message cannot be encoded never reaches the
\* write and returns the marshal error; every byte that enters stdin is
\* written by the holder of the mutex, for a message that encodes.
C25_EncodeErrorInv ==
  \A w \in Writers :
    /\ wPc[w] = "write" => ~Unencodable(w)
    /\ (Unencodable(w) /\ wRet[w] \notin {"none", "pending"}) =>
         wRet[w] = "failed to marshal message"

C25_WriteStep ==
  bStdin' # bStdin =>
    \E w \in Writers : bMu = w /\ wPc[w] = "write" /\ ~Unencodable(w)

C25_EncodeErrorNoIO == [](C25_EncodeErrorInv) /\ [][C25_WriteStep]_vars

\* C25 witness: a SendMessage failed on an unencodable message after
\* another message had been written.
C25_Witness ==
  \E w \in Writers :
    /\ wPc[w] = "idle"
    /\ wRet[w] = "failed to marshal message"
    /\ bStdin # <<>>

\* C26: when the first line the subprocess writes is empty, the first
\* decode attempt is not made on it: the empty line is skipped.
C26_EmptyLineSkipped ==
  (pWritten # <<>> /\ pWritten[1] = <<>> /\ rLog # <<>>) =>
    rLog[1].line # <<>>

\* C27: once loaded the configuration never changes, it is what LoadConfig
\* made of the environment, and every session's command is built from it.
C27_ConfigInv ==
  /\ cfg # NoConfig => cfg = LoadConfig(env).cfg
  /\ \A i \in DOMAIN sessions :
       /\ sessions[i].cmd.Args = ExpectedArgs(LoadConfig(env).cfg)
       /\ sessions[i].cmd.Path = LoadConfig(env).cfg.MCPBinaryPath

C27_ConfigStep == cfg # NoConfig => cfg' = cfg

C27_ConfigImmutable == [](C27_ConfigInv) /\ [][C27_ConfigStep]_vars

\* C27 witness: main has returned after two sessions were opened.
C27_Witness ==
  /\ mainPc = "exited"
  /\ nextSid = 2
  /\ cfg # NoConfig

\* C28: whether a request to the protected endpoint reaches the MCP handler
\* depends on its own Authorization header and the configured token alone,
\* whatever session it names; one that does not is answered 401.
C28_AuthEveryRequest ==
  \A s \in Slots :
    (reqs[s].st # "free" /\ Protected(reqs[s].path)) =>
      /\ reqs[s].reached <=> ValidBearer(cfg.MCPAccessToken, reqs[s].hdr)
      /\ ~reqs[s].reached =>
           (reqs[s].st = "done" /\ reqs[s].status = StatusUnauthorized)

\* C28 witness: a request naming an open session, with a wrong scheme, was
\* rejected.
C28_Witness ==
  \E s \in Slots :
    /\ reqs[s].sid \in DOMAIN sessions
    /\ reqs[s].hdr = <<"bearer", " ", "tok">>
    /\ reqs[s].status = StatusUnauthorized

\* The Authorization headers that carry no token.
EmptyCredentials == {<<>>, <<"Bearer">>, <<"Bearer", " ">>}

\* C29: a loaded configuration has a non-empty access token, and a request
\* whose header carries no token is never authenticated.
C29_EmptyTokenNeverAuth ==
  /\ cfg # NoConfig => cfg.MCPAccessToken # <<>>
  /\ \A s \in Slots :
       (reqs[s].st # "free" /\ Protected(reqs[s].path)
          /\ reqs[s].hdr \in EmptyCredentials) =>
         /\ ~reqs[s].reached
         /\ reqs[s].status = StatusUnauthorized

\* C29 witness: a request with the header "Bearer " was rejected.
C29_Witness ==
  \E s \in Slots :
    /\ reqs[s].st = "done"
    /\ Protected(reqs[s].path)
    /\ reqs[s].hdr = <<"Bearer", " ">>
    /\ reqs[s].status = StatusUnauthorized

\* C30: the command GetPortainerCommand returns has the path and the
\* argument vector of the command CreateMCPServer builds.
C30_SameCommand ==
  (cmSession # NoCmd /\ cmDebug # NoCmd) =>
    /\ cmSession.Path = cmDebug.Path
    /\ cmSession.Args = cmDebug.Args

\* C30 witness: both commands were built for a configuration with every
\* optional flag and a binary path from the environment.
C30_Witness ==
  /\ cmSession # NoCmd
  /\ cmDebug # NoCmd
  /\ cmCfg.ReadOnlyMode
  /\ cmCfg.DisableVersionCheck
  /\ cmCfg.MCPToolsFile # ""
  /\ cmCfg.MCPBinaryPath # DefaultBinary

====
